---- MODULE Spec2Model ----
(***************************************************************************)
(* The read-aloud audio subsystem of TinyTales: the StoryDisplay component *)
(* (speech cache, in-flight map, prefetch effect, handleSpeak) and the     *)
(* part of App that mounts and unmounts it.                                *)
(*                                                                         *)
(* Scheduling is the browser's event loop: one action is one macrotask     *)
(* together with the microtasks (promise continuations, React commit and   *)
(* effects) it triggers.                                                   *)
(*                                                                         *)
(* The model follows the StoryDisplay instance that is mounted.  Of an     *)
(* unmounted instance it keeps the generateSpeech calls that are still     *)
(* pending; its state setters do nothing and its refs are unreachable from *)
(* the next instance, so its handleSpeak invocations are not followed.  A  *)
(* settled promise that the in-flight map no longer holds is unreachable   *)
(* and is dropped.                                                         *)
(***************************************************************************)
EXTENDS Integers, Sequences, FiniteSets, TLC

\* ------------------------------------------------------------------ bounds
\* calls of generateSpeech over the whole run
MaxFetch == 3
\* stories generateStory delivers over the whole run
MaxStory == 2
\* handleSpeak invocations that are in progress at the same time
MaxSpeak == 2
\* handleSpeak invocations that await resume() at the same time
MaxResume == 1
\* handleTextChange calls over the whole run
MaxEdit == 1

\* ------------------------------------------------------------- constants
\* the token every flashcard button passes to handleSpeak
FlashcardIndex == 999
\* null of speakingIndex / loadingAudioIndex
NoIndex == -1

\* text strings; "" is the empty label
Texts == {"", "a", "b"}

\* stories generateStory can deliver (english sentences, keyword.en, teaching_word.en)
StoryA == [english |-> <<"a", "a">>, keywords |-> <<"a">>, teaching_words |-> <<"">>]
StoryB == [english |-> <<"b", "a">>, keywords |-> <<"a">>, teaching_words |-> <<"b">>]
Stories == {StoryA, StoryB}

NoStory == [english |-> <<>>, keywords |-> <<>>, teaching_words |-> <<>>]

\* the sentences the modelled user edits
EditIndexes == {1}

\* what fetch `id` resolved to: result "audio" is base64 of 16-bit PCM,
\* "badaudio" a non-empty string that does not decode, "null" is null;
\* story: the story on display when the fetch began.  NoAudio is undefined,
\* the value of a record property that does not exist.
NoAudio == [id |-> 0, result |-> "none", story |-> 0]

\* Record<string, string> and Record<string, Promise> with no entry
EmptyCache == [t \in Texts |-> NoAudio]
EmptyMap == [t \in Texts |-> 0]

\* what the speech service can answer
Responses == {"error", "nodata", "empty", "audio", "badaudio"}

\* the states a newly constructed AudioContext can start in
ContextStates == {"running", "suspended"}

\* what `new AudioContext(...)` can do: return a context in one of these
\* states, or throw
ConstructorOutcomes == ContextStates \cup {"throws"}

VARIABLES
    story,              \* App: id of the story object in state, 0 = null
    nStory,             \* story objects created so far
    generating,         \* handleGenerate: "idle", or what it awaits
    localStory,         \* useState, texts of the displayed story
    nEdit,              \* handleTextChange calls so far
    isEditing,          \* useState
    speakingIndex,      \* useState
    loadingAudioIndex,  \* useState
    audioCache,         \* useState, text -> audio
    audioContextRef,    \* useRef: "none", "running", "suspended"
    nContext,           \* AudioContexts constructed so far
    speechPromiseMap,   \* useRef: text -> promise (fetch id)
    fetches,            \* the promises of the generateSpeech calls
    nFetch,             \* generateSpeech calls so far
    speaks,             \* the handleSpeak invocations in progress
    obtained,           \* history: the loadAudio calls of the last step
    cachedBefore,       \* history: the texts cached when the last instance unmounted
    lastOp,             \* history: the handler that ran last
    data,               \* decoder: the bytes handed to decodeAudioData
    numChannels,        \* decoder: the channel count handed to decodeAudioData
    audioBuffer,        \* decoder: what decodeAudioData gave
    playback,           \* decoder: the promise playPCM returns
    apiKey,             \* speech service: process.env.API_KEY || ''
    speechPending,      \* speech service: the text of the call awaiting generateContent, "" = none
    networkCalls,       \* speech service: calls of ai.models.generateContent so far
    speechLog           \* speech service: how the generateSpeech calls settled

decoderVars == <<data, numChannels, audioBuffer, playback>>

serviceVars == <<apiKey, speechPending, networkCalls, speechLog>>

\* the variables of playPCM and of generateSpeech taken alone
unitVars == <<decoderVars, serviceVars>>

vars == <<story, nStory, generating, localStory, nEdit, isEditing,
          speakingIndex, loadingAudioIndex, audioCache, audioContextRef, nContext,
          speechPromiseMap, fetches, nFetch, speaks, obtained, cachedBefore,
          lastOp, decoderVars, serviceVars>>

appVars == <<story, nStory, generating, cachedBefore>>

\* a StoryDisplay is rendered exactly while story is not null
Mounted == story # 0

\* App's isLoading: set on entry of handleGenerate, cleared in its finally
isLoading == generating # "idle"

\* ---------------------------------------------------------- generateSpeech
\* generateSpeech without its catch block
GenerateSpeechNoCatch(resp) ==
    IF resp = "error" THEN "rejected"
    ELSE IF resp \in {"nodata", "empty"} THEN "null"
    ELSE resp

\* the value generateSpeech resolves to for a service response
GenerateSpeech(resp) ==
    IF resp = "error" THEN "null"
    ELSE IF resp \in {"nodata", "empty"} THEN "null"
    ELSE resp

\* JavaScript truthiness of a base64 value
Truthy(base64) == base64.result \in {"audio", "badaudio"}

\* the promise (fetch record) with this id
FetchOf(fs, id) == CHOOSE r \in fs : r.id = id

\* the value a settled promise holds
ValueOf(r) == [id |-> r.id, result |-> r.result, story |-> r.story]

\* ---------------------------------------------------------------- loadAudio
\* st = [map, fetches, n, sid, obtained]: the in-flight map, the promises,
\* the number of generateSpeech calls, the id of the story on display and,
\* for the history, the call log; cache is the audioCache of the closure the
\* call runs in.

\* the history entry of a call: what it returned (the cached audio val, or
\* promise val, joined or newly fetched)
Entry(text, kind, val) == [text |-> text, kind |-> kind, val |-> val]

\* loadAudio without step 1, the look-up in audioCache
LoadAudioNoCache(st, text, cache) ==
    IF st.map[text] # 0
    THEN [st EXCEPT !.obtained = Append(@, Entry(text, "joined", st.map[text]))]
    ELSE LET f == st.n + 1 IN
         [st EXCEPT !.map = [@ EXCEPT ![text] = f],
                    !.n = f,
                    !.fetches = @ \cup {[id |-> f, text |-> text, story |-> st.sid,
                                         live |-> TRUE, result |-> "pending"]},
                    !.obtained = Append(@, Entry(text, "fetched", f))]

\* loadAudio without `speechPromiseMap.current[text] = promise`
LoadAudioNoRegister(st, text, cache) ==
    IF Truthy(cache[text])
    THEN [st EXCEPT !.obtained = Append(@, Entry(text, "cached", cache[text].id))]
    ELSE IF st.map[text] # 0
    THEN [st EXCEPT !.obtained = Append(@, Entry(text, "joined", st.map[text]))]
    ELSE LET f == st.n + 1 IN
         [st EXCEPT !.n = f,
                    !.fetches = @ \cup {[id |-> f, text |-> text, story |-> st.sid,
                                         live |-> TRUE, result |-> "pending"]},
                    !.obtained = Append(@, Entry(text, "fetched", f))]

\* loadAudio without step 2, the look-up in speechPromiseMap
LoadAudioNoJoin(st, text, cache) ==
    IF Truthy(cache[text])
    THEN [st EXCEPT !.obtained = Append(@, Entry(text, "cached", cache[text].id))]
    ELSE LET f == st.n + 1 IN
         [st EXCEPT !.map = [@ EXCEPT ![text] = f],
                    !.n = f,
                    !.fetches = @ \cup {[id |-> f, text |-> text, story |-> st.sid,
                                         live |-> TRUE, result |-> "pending"]},
                    !.obtained = Append(@, Entry(text, "fetched", f))]

LoadAudio(st, text, cache) ==
    IF Truthy(cache[text])
    THEN [st EXCEPT !.obtained = Append(@, Entry(text, "cached", cache[text].id))]
    ELSE IF st.map[text] # 0
    THEN [st EXCEPT !.obtained = Append(@, Entry(text, "joined", st.map[text]))]
    ELSE LET f == st.n + 1 IN
         [st EXCEPT !.map = [@ EXCEPT ![text] = f],
                    !.n = f,
                    !.fetches = @ \cup {[id |-> f, text |-> text, story |-> st.sid,
                                         live |-> TRUE, result |-> "pending"]},
                    !.obtained = Append(@, Entry(text, "fetched", f))]

\* ------------------------------------------------------------- prefetchAll
\* textsToPreload with the keywords ahead of the sentences
textsToPreloadKeywordsFirst(ls) == ls.keywords \o ls.english \o ls.teaching_words

textsToPreload(ls) == ls.english \o ls.keywords \o ls.teaching_words

\* the for loop of prefetchAll; the effect runs in the closure of the
\* render that scheduled it, which shows story st.sid
\* the for loop without its `if (!text) continue`
RECURSIVE PrefetchLoopNoSkip(_, _, _)
PrefetchLoopNoSkip(st, texts, cache) ==
    IF texts = <<>> THEN st
    ELSE PrefetchLoopNoSkip(LoadAudio(st, Head(texts), cache), Tail(texts), cache)

RECURSIVE PrefetchLoop(_, _, _)
PrefetchLoop(st, texts, cache) ==
    IF texts = <<>> THEN st
    ELSE IF Head(texts) = "" THEN PrefetchLoop(st, Tail(texts), cache)
    ELSE PrefetchLoop(LoadAudio(st, Head(texts), cache), Tail(texts), cache)

\* the distinct non-empty texts of a story
DistinctTexts(ls) ==
    {(ls.english \o ls.keywords \o ls.teaching_words)[i] :
        i \in 1..(Len(ls.english) + Len(ls.keywords) + Len(ls.teaching_words))} \ {""}

\* prefetchAll over an in-flight map that every pass starts empty
prefetchAllForgetful(st, ls, cache) ==
    PrefetchLoop([st EXCEPT !.map = EmptyMap], textsToPreload(ls), cache)

prefetchAll(st, ls, cache) == PrefetchLoop(st, textsToPreload(ls), cache)

\* the effect without its `if (!isEditing)`
PrefetchEffectAlways(st, ls, editing, cache) == prefetchAll(st, ls, cache)

\* the effect without its call of prefetchAll
PrefetchEffectNever(st, ls, editing, cache) == st

\* the effect on [localStory, isEditing]
PrefetchEffect(st, ls, editing, cache) ==
    IF ~editing THEN prefetchAll(st, ls, cache) ELSE st

Store ==
    [map |-> speechPromiseMap, fetches |-> fetches, n |-> nFetch, sid |-> story,
     obtained |-> <<>>]

\* the promises something can still observe: the pending ones and those the
\* in-flight map holds
Reachable(fs, map) == {r \in fs : r.result = "pending" \/ map[r.text] = r.id}

\* writes a store back: the in-flight map, the promises, the call log
PutStore(st) ==
    /\ st.n <= MaxFetch
    /\ nFetch' = st.n
    /\ obtained' = st.obtained
    /\ speechPromiseMap' = st.map
    /\ fetches' = Reachable(st.fetches, st.map)

\* ------------------------------------------------------------------ playPCM
\* atob / decodeAudioData throw on a payload that is no 16-bit PCM
PlayPCMThrows(base64) == base64.result = "badaudio"

\* -------------------------------------------------------------- handleSpeak
\* u = [loading, speaking]: the two indicators
\* a finally block that resets nothing
FinallyNoReset(u, p) == u

\* the finally block
Finally(u, p) == [loading |-> NoIndex, speaking |-> NoIndex]

\* handleSpeak from the value of `await loadAudio(text)` on, without its
\* `if (base64)`
AfterLoadNoGuard(u, p, base64) ==
    [u |-> [loading |-> NoIndex, speaking |-> p.index],
     proc |-> <<[p EXCEPT !.pc = "playing", !.await = base64.id, !.cache = EmptyCache]>>]

\* handleSpeak from the value of `await loadAudio(text)` on. Gives the
\* indicators and the invocation if it goes on (playing).
AfterLoad(u, p, base64) ==
    IF Truthy(base64)
    THEN LET u1 == [loading |-> NoIndex, speaking |-> p.index] IN
         IF PlayPCMThrows(base64)
         THEN [u |-> Finally(u1, p), proc |-> <<>>]
         ELSE [u |-> u1, proc |-> <<[p EXCEPT !.pc = "playing", !.await = base64.id,
                                              !.cache = EmptyCache]>>]
    ELSE [u |-> Finally(u, p), proc |-> <<>>]

\* the continuations of every invocation awaiting promise f, in await order
RECURSIVE Wake(_, _, _, _)
Wake(u, ps, f, base64) ==
    IF ps = <<>> THEN [u |-> u, speaks |-> <<>>]
    ELSE LET p == Head(ps) IN
         IF p.pc = "loading" /\ p.await = f
         THEN LET r == AfterLoad(u, p, base64)
                  rest == Wake(r.u, Tail(ps), f, base64)
              IN [u |-> rest.u, speaks |-> r.proc \o rest.speaks]
         ELSE LET rest == Wake(u, Tail(ps), f, base64)
              IN [u |-> rest.u, speaks |-> <<p>> \o rest.speaks]

Remove(seq, k) == SubSeq(seq, 1, k - 1) \o SubSeq(seq, k + 1, Len(seq))

Indicators == [loading |-> loadingAudioIndex, speaking |-> speakingIndex]

\* handleSpeak from setLoadingAudioIndex(index) on, for invocation p whose
\* closure holds p.cache; others are the other invocations in progress
StartLoad(p, others) ==
    LET u1 == [Indicators EXCEPT !.loading = p.index]
        st == LoadAudio(Store, p.text, p.cache)
        ret == st.obtained[Len(st.obtained)]
        r == IF ret.kind = "cached" THEN AfterLoad(u1, p, p.cache[p.text])
             ELSE IF FetchOf(st.fetches, ret.val).result = "pending"
             THEN [u |-> u1, proc |-> <<[p EXCEPT !.pc = "loading", !.await = ret.val,
                                                  !.cache = EmptyCache]>>]
             ELSE AfterLoad(u1, p, ValueOf(FetchOf(st.fetches, ret.val)))
    IN /\ loadingAudioIndex' = r.u.loading
       /\ speakingIndex' = r.u.speaking
       /\ speaks' = others \o r.proc
       /\ PutStore(st)

TypeOK ==
    /\ story \in 0..MaxStory
    /\ nFetch <= MaxFetch
    /\ Len(speaks) <= MaxSpeak

\* decodeAudioData has not been called
NotDecoded == [error |-> "pending", length |-> 0, sampleRate |-> 0, channels |-> <<>>]

\* the application before the first event
AppInit ==
    /\ story = 0 /\ nStory = 0 /\ generating = "idle"
    /\ localStory = NoStory
    /\ nEdit = 0
    /\ isEditing = FALSE
    /\ speakingIndex = NoIndex
    /\ loadingAudioIndex = NoIndex
    /\ audioCache = EmptyCache
    /\ audioContextRef = "none"
    /\ nContext = 0
    /\ speechPromiseMap = EmptyMap
    /\ fetches = {}
    /\ nFetch = 0
    /\ speaks = <<>>
    /\ obtained = <<>>
    /\ cachedBefore = {}
    /\ lastOp = [op |-> "init", text |-> ""]

\* playPCM taken alone is not called
DecoderIdle ==
    /\ data = <<>> /\ numChannels = 1
    /\ audioBuffer = NotDecoded /\ playback = "idle"

\* generateSpeech taken alone is not called
ServiceIdle ==
    /\ apiKey = "key" /\ speechPending = ""
    /\ networkCalls = 0 /\ speechLog = <<>>

Init == AppInit /\ DecoderIdle /\ ServiceIdle

Op(name, text) == [op |-> name, text |-> text]

\* handleGenerate up to `await generateStory(...)`; the Generate button is
\* rendered while story is null and disabled while isLoading
HandleGenerate ==
    /\ UNCHANGED unitVars
    /\ ~Mounted /\ ~isLoading
    /\ nStory < MaxStory
    /\ generating' = "story"
    /\ lastOp' = Op("other", "")
    /\ obtained' = <<>>
    /\ UNCHANGED <<story, nStory, localStory, nEdit, isEditing,
                   speakingIndex, loadingAudioIndex, audioCache, audioContextRef,
                   nContext, speechPromiseMap, fetches, nFetch, speaks, cachedBefore>>

\* generateStory rejects: setError, finally
GenerateFails ==
    /\ UNCHANGED unitVars
    /\ generating = "story"
    /\ generating' = "idle"
    /\ lastOp' = Op("other", "")
    /\ obtained' = <<>>
    /\ UNCHANGED <<story, nStory, localStory, nEdit, isEditing,
                   speakingIndex, loadingAudioIndex, audioCache, audioContextRef,
                   nContext, speechPromiseMap, fetches, nFetch, speaks, cachedBefore>>

\* the reset effect on [story], which runs on mount, then the prefetch
\* effect; s are the texts of story object sid
ResetEffect(s, sid) ==
    /\ localStory' = s
    /\ isEditing' = FALSE
    /\ audioCache' = EmptyCache
    /\ PutStore(PrefetchEffect([Store EXCEPT !.map = EmptyMap, !.sid = sid],
                               s, FALSE, EmptyCache))

\* generateStory resolves: setStory(result) mounts a StoryDisplay, whose
\* effects run; with an uploaded image handleGenerate ends here (finally),
\* without one it goes on to await generateIllustration
MountStory(s, selectedImage) ==
    /\ UNCHANGED unitVars
    /\ generating = "story"
    /\ generating' = IF selectedImage THEN "idle" ELSE "illustration"
    /\ nStory' = nStory + 1 /\ story' = nStory + 1
    /\ ResetEffect(s, nStory + 1)
    /\ lastOp' = Op("mount", "")
    /\ UNCHANGED <<speakingIndex, loadingAudioIndex, audioContextRef, nContext,
                   nEdit, speaks, cachedBefore>>

\* generateIllustration settles: setDisplayImage or setError, finally
IllustrationDone ==
    /\ UNCHANGED unitVars
    /\ generating = "illustration"
    /\ generating' = "idle"
    /\ lastOp' = Op("other", "")
    /\ obtained' = <<>>
    /\ UNCHANGED <<story, nStory, localStory, nEdit, isEditing,
                   speakingIndex, loadingAudioIndex, audioCache, audioContextRef,
                   nContext, speechPromiseMap, fetches, nFetch, speaks, cachedBefore>>

\* handleReset: setStory(null) unmounts the StoryDisplay
HandleReset ==
    /\ UNCHANGED unitVars
    /\ Mounted
    /\ story' = 0
    /\ localStory' = NoStory
    /\ isEditing' = FALSE
    /\ speakingIndex' = NoIndex /\ loadingAudioIndex' = NoIndex
    /\ audioCache' = EmptyCache
    /\ audioContextRef' = "none"
    /\ speechPromiseMap' = EmptyMap
    /\ fetches' = {[r EXCEPT !.live = FALSE] : r \in Reachable(fetches, EmptyMap)}
    /\ speaks' = <<>>
    /\ cachedBefore' = {t \in Texts : Truthy(audioCache[t])}
    /\ lastOp' = Op("other", "")
    /\ obtained' = <<>>
    /\ UNCHANGED <<nStory, generating, nContext, nFetch, nEdit>>

\* ------------------------------------------------------------- StoryDisplay
\* the edit toggle button and the prefetch effect of the render it causes
ToggleEdit ==
    /\ UNCHANGED unitVars
    /\ Mounted
    /\ isEditing' = ~isEditing
    /\ PutStore(PrefetchEffect(Store, localStory, ~isEditing, audioCache))
    /\ lastOp' = Op("toggleEdit", "")
    /\ UNCHANGED <<appVars, localStory, nEdit, speakingIndex, loadingAudioIndex,
                   audioCache, audioContextRef, nContext, speaks>>

\* handleTextChange('english', i - 1, value) and the prefetch effect of the
\* render it causes; the textarea exists while editing
HandleTextChange(i, value) ==
    /\ UNCHANGED unitVars
    /\ Mounted /\ isEditing
    /\ nEdit < MaxEdit
    /\ i \in 1..Len(localStory.english)
    /\ localStory.english[i] # value
    /\ nEdit' = nEdit + 1
    /\ localStory' = [localStory EXCEPT !.english[i] = value]
    /\ PutStore(PrefetchEffect(Store, localStory', isEditing, audioCache))
    /\ lastOp' = Op("handleTextChange", value)
    /\ UNCHANGED <<appVars, isEditing, speakingIndex, loadingAudioIndex,
                   audioCache, audioContextRef, nContext, speaks>>

\* handleSpeak(text, index) up to its first await or its end; ctx is what
\* the AudioContext constructor does when it is called. The constructor is
\* called outside the try block: when it throws, handleSpeak rejects
HandleSpeak(text, index, ctx) ==
    /\ UNCHANGED unitVars
    /\ lastOp' = IF text # "" /\ audioContextRef = "none" /\ ctx = "throws"
                 THEN Op("rejected", text) ELSE Op("handleSpeak", text)
    /\ IF text = "" \/ (audioContextRef = "none" /\ ctx = "throws")
       THEN /\ obtained' = <<>>
            /\ UNCHANGED <<appVars, localStory, nEdit, isEditing, speakingIndex,
                           loadingAudioIndex, audioCache, audioContextRef, nContext,
                           speechPromiseMap, fetches, nFetch, speaks>>
       ELSE /\ Len(speaks) < MaxSpeak
            /\ IF audioContextRef = "none"
               THEN audioContextRef' = ctx /\ nContext' = nContext + 1
               ELSE ctx = audioContextRef /\ UNCHANGED <<audioContextRef, nContext>>
            /\ ctx = "suspended" =>
                    Cardinality({k \in 1..Len(speaks) : speaks[k].pc = "resuming"}) < MaxResume
            /\ LET p == [text |-> text, index |-> index, pc |-> "resuming",
                         await |-> 0, cache |-> audioCache]
               IN IF ctx = "suspended"
                  THEN /\ obtained' = <<>>
                       /\ speaks' = Append(speaks, p)
                       /\ UNCHANGED <<speakingIndex, loadingAudioIndex, nFetch,
                                      speechPromiseMap, fetches>>
                  ELSE StartLoad(p, speaks)
            /\ UNCHANGED <<appVars, localStory, nEdit, isEditing, audioCache>>

\* the speak button of sentence i: rendered when not editing, disabled while
\* speakingIndex is not null
SpeakSentence(i, ctx) ==
    /\ Mounted /\ ~isEditing
    /\ speakingIndex = NoIndex
    /\ i \in 1..Len(localStory.english)
    /\ HandleSpeak(localStory.english[i], i - 1, ctx)

\* the speak button of flashcard k: disabled while loadingAudioIndex is 999
SpeakCard(k, ctx) ==
    /\ Mounted
    /\ loadingAudioIndex # FlashcardIndex
    /\ LET cards == localStory.keywords \o localStory.teaching_words IN
       /\ k \in 1..Len(cards)
       /\ HandleSpeak(cards[k], FlashcardIndex, ctx)

\* audioContextRef.current.resume() resolves for invocation k
ResumeDone(k) ==
    /\ UNCHANGED unitVars
    /\ k \in 1..Len(speaks)
    /\ speaks[k].pc = "resuming"
    /\ audioContextRef' = "running"
    /\ StartLoad(speaks[k], Remove(speaks, k))
    /\ lastOp' = Op("resumeDone", speaks[k].text)
    /\ UNCHANGED <<appVars, localStory, nEdit, isEditing, audioCache, nContext>>

\* audioContextRef.current.resume() rejects for invocation k: it is awaited
\* outside the try block, handleSpeak rejects
ResumeFails(k) ==
    /\ UNCHANGED unitVars
    /\ k \in 1..Len(speaks)
    /\ speaks[k].pc = "resuming"
    /\ speaks' = Remove(speaks, k)
    /\ lastOp' = Op("rejected", speaks[k].text)
    /\ obtained' = <<>>
    /\ UNCHANGED <<appVars, localStory, nEdit, isEditing, speakingIndex,
                   loadingAudioIndex, audioCache, audioContextRef, nContext,
                   speechPromiseMap, fetches, nFetch>>

\* the then-callback without its `if (base64)`
ThenCallbackNoGuard(r, cache, base64) ==
    IF r.live THEN [cache EXCEPT ![r.text] = base64] ELSE cache

\* the then-callback with one audioCache for all instances
ThenCallbackSharedCache(r, cache, base64) ==
    IF Truthy(base64) THEN [cache EXCEPT ![r.text] = base64] ELSE cache

\* the then-callback of the loadAudio call that made promise r, cache being
\* the state of the mounted instance: setAudioCache when base64 is truthy;
\* the setter of an instance that is unmounted changes nothing
ThenCallback(r, cache, base64) ==
    IF Truthy(base64) /\ r.live THEN [cache EXCEPT ![r.text] = base64] ELSE cache

\* the generateSpeech call f settles: the then-callback of loadAudio, then
\* the continuation of every handleSpeak awaiting it
FetchResolves(f, resp) ==
    /\ UNCHANGED unitVars
    /\ \E r \in fetches : r.id = f /\ r.result = "pending"
    /\ LET r == FetchOf(fetches, f)
           done == [r EXCEPT !.result = GenerateSpeech(resp)]
           base64 == ValueOf(done)
           w == Wake(Indicators, speaks, f, base64)
       IN /\ audioCache' = ThenCallback(r, audioCache, base64)
          /\ loadingAudioIndex' = w.u.loading
          /\ speakingIndex' = w.u.speaking
          /\ speaks' = w.speaks
          /\ fetches' = Reachable((fetches \ {r}) \cup {done}, speechPromiseMap)
          /\ lastOp' = Op("fetchResolves", r.text)
    /\ obtained' = <<>>
    /\ UNCHANGED <<appVars, localStory, nEdit, isEditing, audioContextRef, nContext,
                   speechPromiseMap, nFetch>>

\* source.onended of the playback of invocation k: playPCM resolves, finally
PlaybackEnds(k) ==
    /\ UNCHANGED unitVars
    /\ k \in 1..Len(speaks)
    /\ speaks[k].pc = "playing"
    /\ LET u == Finally(Indicators, speaks[k]) IN
       /\ loadingAudioIndex' = u.loading
       /\ speakingIndex' = u.speaking
    /\ speaks' = Remove(speaks, k)
    /\ lastOp' = Op("other", "")
    /\ obtained' = <<>>
    /\ UNCHANGED <<appVars, localStory, nEdit, isEditing, audioCache,
                   audioContextRef, nContext, speechPromiseMap, fetches, nFetch>>

Next ==
    \/ HandleGenerate
    \/ GenerateFails
    \/ \E s \in Stories, selectedImage \in BOOLEAN : MountStory(s, selectedImage)
    \/ IllustrationDone
    \/ HandleReset
    \/ ToggleEdit
    \/ \E i \in EditIndexes, value \in Texts : HandleTextChange(i, value)
    \/ \E i \in 1..2, ctx \in ConstructorOutcomes : SpeakSentence(i, ctx)
    \/ \E k \in 1..2, ctx \in ConstructorOutcomes : SpeakCard(k, ctx)
    \/ \E k \in 1..MaxSpeak : ResumeDone(k)
    \/ \E k \in 1..MaxSpeak : ResumeFails(k)
    \/ \E f \in 1..MaxFetch, resp \in Responses : FetchResolves(f, resp)
    \/ \E k \in 1..MaxSpeak : PlaybackEnds(k)

Spec == Init /\ [][Next]_vars

\* every generateSpeech call that was started settles, and every playback
\* that was started ends. Position k of speaks is fair, not the invocation:
\* an invocation moves to a lower position only, when an earlier one ends.
Fairness ==
    /\ \A f \in 1..MaxFetch : WF_vars(\E resp \in Responses : FetchResolves(f, resp))
    /\ \A k \in 1..MaxSpeak : WF_vars(PlaybackEnds(k))

\* stories in the fair runs
MaxFairStory == 1

\* Next with the stories bounded by MaxFairStory
FairNext ==
    \/ nStory < MaxFairStory /\ HandleGenerate
    \/ GenerateFails
    \/ \E s \in Stories, selectedImage \in BOOLEAN : MountStory(s, selectedImage)
    \/ IllustrationDone
    \/ HandleReset
    \/ ToggleEdit
    \/ \E i \in EditIndexes, value \in Texts : HandleTextChange(i, value)
    \/ \E i \in 1..2, ctx \in ConstructorOutcomes : SpeakSentence(i, ctx)
    \/ \E k \in 1..2, ctx \in ConstructorOutcomes : SpeakCard(k, ctx)
    \/ \E k \in 1..MaxSpeak : ResumeDone(k)
    \/ \E k \in 1..MaxSpeak : ResumeFails(k)
    \/ \E f \in 1..MaxFetch, resp \in Responses : FetchResolves(f, resp)
    \/ \E k \in 1..MaxSpeak : PlaybackEnds(k)

FairSpec == Init /\ [][FairNext]_vars /\ Fairness

\* ------------------------------------------------------------ PCM decoder
\* playPCM and decodeAudioData, applied to every byte sequence over
\* ByteValues of at most MaxBytes bytes and to 1..MaxChannels channels.
\* data is the Uint8Array playPCM fills from atob(base64).

\* length of the byte sequences
MaxBytes == 6
\* channel counts
MaxChannels == 2

\* the bytes of the 16-bit values 0, -1, 32767, -32768 and their mixtures
ByteValues == {0, 127, 128, 255}

ByteSeqs == UNION {[1..n -> ByteValues] : n \in 0..MaxBytes}

\* the sampleRate playPCM passes
SampleRate == 24000

\* the divisor of the conversion to Float32
Int16Scale == 32768

\* the element of an Int16Array over the bytes lo, hi (little-endian)
Int16(lo, hi) ==
    LET u == lo + 256 * hi IN IF u >= 32768 THEN u - 65536 ELSE u

\* new Int16Array(data.buffer), for data of even length
Int16Array(d) == [k \in 1..(Len(d) \div 2) |-> Int16(d[2 * k - 1], d[2 * k])]

\* a call that throws e
Failed(e) == [error |-> e, length |-> 0, sampleRate |-> 0, channels |-> <<>>]

\* the AudioBuffer after the two loops: channelData[i] of channel c is
\* dataInt16[i * numChannels + c] / 32768.0, kept as num / den. When
\* frameCount is no integer the inner loop runs once more, past the end of
\* channelData, where an assignment to a Float32Array does nothing.
Filled(dataInt16, length, sampleRate, ch) ==
    [error |-> "none", length |-> length, sampleRate |-> sampleRate,
     channels |-> [c \in 1..ch |->
                      [i \in 1..length |->
                          [num |-> dataInt16[(i - 1) * ch + (c - 1) + 1],
                           den |-> Int16Scale]]]]

\* decodeAudioData with a createBuffer that accepts a length of 0
DecodeAudioDataAllowsEmpty(d, sampleRate, ch) ==
    IF Len(d) % 2 # 0 THEN Failed("RangeError")
    ELSE LET dataInt16 == Int16Array(d)
         IN Filled(dataInt16, Len(dataInt16) \div ch, sampleRate, ch)

\* decodeAudioData(data, ctx, sampleRate, numChannels):
\* `new Int16Array(data.buffer)` throws a RangeError when the byte length is
\* odd; frameCount = dataInt16.length / numChannels is a Number, which
\* createBuffer converts to an unsigned long (the fraction is cut off), and
\* createBuffer throws a NotSupportedError when that length is 0
DecodeAudioData(d, sampleRate, ch) ==
    IF Len(d) % 2 # 0 THEN Failed("RangeError")
    ELSE LET dataInt16 == Int16Array(d)
             length == Len(dataInt16) \div ch
         IN IF length = 0 THEN Failed("NotSupportedError")
            ELSE Filled(dataInt16, length, sampleRate, ch)

componentVars == <<story, nStory, generating, localStory, nEdit, isEditing,
                   speakingIndex, loadingAudioIndex, audioCache, audioContextRef,
                   nContext, speechPromiseMap, fetches, nFetch, speaks, obtained,
                   cachedBefore, lastOp>>

DecoderInit ==
    /\ AppInit
    /\ ServiceIdle
    /\ data \in ByteSeqs
    /\ numChannels \in 1..MaxChannels
    /\ audioBuffer = NotDecoded
    /\ playback = "idle"

\* decodeAudioData applied to data and numChannels
CallDecodeAudioData ==
    /\ audioBuffer = NotDecoded /\ playback = "idle"
    /\ audioBuffer' = DecodeAudioData(data, SampleRate, numChannels)
    /\ UNCHANGED <<componentVars, serviceVars, data, numChannels, playback>>

\* playPCM up to the promise it returns: it decodes one channel and starts
\* the source; it rejects when decodeAudioData throws
CallPlayPCM ==
    /\ audioBuffer = NotDecoded /\ playback = "idle"
    /\ numChannels = 1
    /\ audioBuffer' = DecodeAudioData(data, SampleRate, 1)
    /\ playback' = IF audioBuffer'.error = "none" THEN "playing" ELSE "rejected"
    /\ UNCHANGED <<componentVars, serviceVars, data, numChannels>>

\* source.onended: the promise of playPCM resolves
OnEnded ==
    /\ playback = "playing"
    /\ playback' = "resolved"
    /\ UNCHANGED <<componentVars, serviceVars, data, numChannels, audioBuffer>>

DecoderNext ==
    \/ CallDecodeAudioData
    \/ CallPlayPCM
    \/ OnEnded

DecoderSpec == DecoderInit /\ [][DecoderNext]_vars

\* ----------------------------------------------------------- speech service
\* generateSpeech taken alone: called up to MaxCalls times, one call after
\* the other, with and without an API key

\* calls of generateSpeech
MaxCalls == 3

\* process.env.API_KEY || '': none, or some key
ApiKeys == {"", "key"}

\* how a call settled: its text, what the service did, the value of the promise
Settled(text, resp, value) == [text |-> text, resp |-> resp, value |-> value]

ServiceInit ==
    /\ AppInit /\ DecoderIdle
    /\ apiKey \in ApiKeys
    /\ speechPending = "" /\ networkCalls = 0 /\ speechLog = <<>>

\* generateSpeech(text) up to its first await or its end
CallGenerateSpeech(text) ==
    /\ speechPending = "" /\ Len(speechLog) < MaxCalls
    /\ IF apiKey = ""
       THEN /\ speechLog' = Append(speechLog, Settled(text, "nokey", "null"))
            /\ UNCHANGED <<speechPending, networkCalls>>
       ELSE /\ speechPending' = text
            /\ networkCalls' = networkCalls + 1
            /\ UNCHANGED speechLog
    /\ UNCHANGED <<componentVars, decoderVars, apiKey>>

\* ai.models.generateContent settles: resp is what the service did
GenerateContentSettles(resp) ==
    /\ speechPending # ""
    /\ speechLog' = Append(speechLog, Settled(speechPending, resp, GenerateSpeech(resp)))
    /\ speechPending' = ""
    /\ UNCHANGED <<componentVars, decoderVars, apiKey, networkCalls>>

ServiceNext ==
    \/ \E text \in Texts \ {""} : CallGenerateSpeech(text)
    \/ \E resp \in Responses : GenerateContentSettles(resp)

ServiceSpec == ServiceInit /\ [][ServiceNext]_vars

\* ------------------------------------------------------------------ claims
\* the generateSpeech calls the mounted instance made
Current(r) == r.live /\ r.story = story

CurrentFor(text) == {r \in fetches : r.text = text /\ Current(r)}

\* the handleSpeak invocations that wait for a generateSpeech call
Waiting(text) ==
    {k \in 1..Len(speaks) : speaks[k].pc = "loading" /\ speaks[k].text = text}

\* C1: within one story session generateSpeech is called at most once for a
\* text, and every caller that obtained the text before that call resolved
\* waits for the promise of that one call, so all of them get its value.
C1_SingleFlight ==
    \A t \in Texts :
        /\ Cardinality(CurrentFor(t)) <= 1
        /\ \A k \in Waiting(t) :
              \E r \in CurrentFor(t) : r.id = speaks[k].await /\ r.result = "pending"

\* two handleSpeak callers and the prefetch pass wait for the one call
C1_Witness ==
    \E t \in Texts \ {""} :
        /\ Cardinality(Waiting(t)) >= 2
        /\ Cardinality(CurrentFor(t)) = 1

\* the generateSpeech calls for a text that have not resolved, of any story
Unresolved(text) == {r \in fetches : r.text = text /\ r.result = "pending"}

\* C2: in every reachable state at most one generateSpeech call per text is
\* unresolved, story changes included.
C2_AtMostOneUnresolved ==
    \A t \in Texts : Cardinality(Unresolved(t)) <= 1

\* loadAudio call e hands out the audio v without a generateSpeech call: from
\* the cache, or from the settled promise of the call that produced v
Returns(e, v) ==
    \/ e.kind = "cached" /\ e.val = v.id
    \/ /\ e.kind = "joined" /\ e.val = v.id
       /\ \E r \in fetches : r.id = e.val /\ r.result = v.result

\* C3: while the cache holds an entry for a text, a loadAudio call for that
\* text returns the stored audio and starts no generateSpeech call: a call
\* from the current render returns the entry, a handleSpeak that resumes in
\* the closure of an earlier render of the same story gets the same audio.
C3_CachedIsReturned ==
    \A i \in 1..Len(obtained) :
        Truthy(audioCache[obtained[i].text]) =>
            /\ Returns(obtained[i], audioCache[obtained[i].text])
            /\ lastOp.op \in {"handleSpeak", "toggleEdit"} => obtained[i].kind = "cached"

\* a speak request found its text in the cache, and so did a prefetch pass
C3_Witness ==
    /\ lastOp.op = "toggleEdit"
    /\ \E i \in 1..Len(obtained) : obtained[i].kind = "cached"
    /\ \E k \in 1..Len(speaks) :
          speaks[k].pc = "playing" /\ speaks[k].await = audioCache[speaks[k].text].id

\* C4: after a story change the first loadAudio call for a text starts a
\* generateSpeech call, whatever the previous story had cached or in flight:
\* the pass on mount starts one for every text, and a later call that starts
\* none hands out what a call started since the change produced.
C4_FreshAfterStoryChange ==
    (nStory >= 2 /\ Mounted) =>
        /\ lastOp.op = "mount" =>
              \A t \in DistinctTexts(localStory) :
                  \E i \in 1..Len(obtained) :
                      obtained[i].text = t /\ obtained[i].kind = "fetched"
        /\ \A i \in 1..Len(obtained) :
              \E r \in CurrentFor(obtained[i].text) : r.id = obtained[i].val

\* the second story is mounted: a text the first one had cached is fetched
\* anew while a call of the first story is still pending
C4_Witness ==
    /\ nStory = 2 /\ lastOp.op = "mount"
    /\ \E i \in 1..Len(obtained) :
          obtained[i].kind = "fetched" /\ obtained[i].text \in cachedBefore
    /\ \E r \in fetches : ~r.live /\ r.result = "pending"

\* C5: the empty string never reaches the cache, the in-flight map or
\* generateSpeech: prefetchAll skips it and handleSpeak returns at once,
\* leaving no invocation behind.
C5_EmptyTextIsNoOp ==
    /\ \A r \in fetches : r.text # ""
    /\ speechPromiseMap[""] = 0
    /\ audioCache[""] = NoAudio
    /\ \A i \in 1..Len(obtained) : obtained[i].text # ""
    /\ \A k \in 1..Len(speaks) : speaks[k].text # ""
    /\ lastOp = Op("handleSpeak", "") => obtained = <<>>

\* handleSpeak was called with the empty text of a flashcard the prefetch
\* pass went over
C5_Witness ==
    /\ lastOp = Op("handleSpeak", "")
    /\ \E i \in 1..Len(textsToPreload(localStory)) : textsToPreload(localStory)[i] = ""
    /\ nFetch > 0

\* the cache holds audio only
NoEmptyEntries == \A t \in Texts : audioCache[t] = NoAudio \/ Truthy(audioCache[t])

\* what the cache is after call f of the mounted instance settled with resp
Stored(f, resp) ==
    LET r == FetchOf(fetches, f) IN
    IF GenerateSpeech(resp) = "null"
    THEN audioCache' = audioCache
    ELSE /\ audioCache'[r.text] = [id |-> f, result |-> resp, story |-> r.story]
         /\ \A t \in Texts \ {r.text} : audioCache'[t] = audioCache[t]

\* C6: a generateSpeech call that yields audio v leaves the cache mapping its
\* text to v, one that fails or yields nothing leaves the cache as it was,
\* and no cache entry ever holds a null or empty value.
C6_CacheGetsAudioOnly ==
    /\ []NoEmptyEntries
    /\ [][\A f \in 1..MaxFetch, resp \in Responses :
            (FetchResolves(f, resp) /\ FetchOf(fetches, f).live) => Stored(f, resp)]_vars

\* one call yielded audio that is cached, another one of the same story
\* failed and left no entry
C6_Witness ==
    \E t1, t2 \in Texts :
        /\ Truthy(audioCache[t1]) /\ audioCache[t1].id = speechPromiseMap[t1]
        /\ audioCache[t2] = NoAudio
        /\ \E r \in CurrentFor(t2) : r.id = speechPromiseMap[t2] /\ r.result = "null"

\* C7: after the generateSpeech call of a text has failed, a speak request
\* for the text in the same story session starts a new call.
C7_SpeakRetriesFailedPrefetch ==
    lastOp.op \in {"handleSpeak", "resumeDone"} =>
        \A i \in 1..Len(obtained) :
            obtained[i].kind = "joined" =>
                \E r \in fetches : r.id = obtained[i].val /\ r.result # "null"

\* the entries of a cache are entries of the story on display
OfThisStory(cache) == \A t \in Texts : cache[t] = NoAudio \/ cache[t].story = story

\* C8: the cache and the in-flight map are cleared together: whatever a
\* loadAudio call can read, in the cache of the current render, in the cache
\* of the closure it resumes in or in the in-flight map, is of the story on
\* display, never a leftover of the previous one.
C8_ClearedTogether ==
    /\ OfThisStory(audioCache)
    /\ \A k \in 1..Len(speaks) : OfThisStory(speaks[k].cache)
    /\ \A t \in Texts :
          speechPromiseMap[t] # 0 => \E r \in CurrentFor(t) : r.id = speechPromiseMap[t]

\* the second story has entries in both maps while a call of the first
\* story, which had a cache entry, is still pending
C8_Witness ==
    /\ nStory = 2 /\ cachedBefore # {}
    /\ \E t \in Texts : Truthy(audioCache[t])
    /\ \E t \in Texts : speechPromiseMap[t] # 0
    /\ \E r \in fetches : ~r.live /\ r.result = "pending"

\* the generateSpeech calls the last step started for a text
StartedNow(text) ==
    {i \in 1..Len(obtained) : obtained[i].text = text /\ obtained[i].kind = "fetched"}

\* the pass on mount starts one generateSpeech call per distinct non-empty
\* text, a later pass at most one
OneFetchPerText ==
    /\ lastOp.op = "mount" =>
          \A t \in Texts :
              Cardinality(StartedNow(t)) = IF t \in DistinctTexts(localStory) THEN 1 ELSE 0
    /\ lastOp.op = "toggleEdit" =>
          \A t \in Texts : Cardinality(StartedNow(t)) <= 1

\* a speak request for a text whose generateSpeech call yielded audio starts
\* no call and plays that audio
SpeakPlaysPrefetched ==
    (lastOp.op \in {"handleSpeak", "resumeDone"} /\ obtained # <<>>) =>
        \A r \in CurrentFor(obtained[1].text) :
            r.result = "audio" =>
                /\ obtained[1].kind # "fetched"
                /\ Len(speaks) > 0
                /\ speaks[Len(speaks)].pc = "playing"
                /\ speaks[Len(speaks)].text = r.text
                /\ speaks[Len(speaks)].await = r.id

\* C9: a prefetch pass over a story with duplicate texts starts exactly one
\* generateSpeech call per distinct non-empty text, and once that call has
\* yielded audio a speak request for the text plays it without a new call.
C9_DuplicatesFetchedOnce == OneFetchPerText /\ SpeakPlaysPrefetched

\* the second sentence, a duplicate of the first, is played from the one call
C9_Witness ==
    /\ lastOp.op = "handleSpeak" /\ Len(localStory.english) = 2
    /\ localStory.english[1] = localStory.english[2]
    /\ nFetch = 1
    /\ \E k \in 1..Len(speaks) :
          speaks[k].pc = "playing" /\ speaks[k].index = 1 /\ speaks[k].await = 1

NonEmpty(text) == text # ""

\* the texts a prefetch pass is to go over: sentences, keywords, teaching words
PriorityOrder ==
    SelectSeq(localStory.english \o localStory.keywords \o localStory.teaching_words,
              NonEmpty)

\* the last step ran a prefetch pass
PassNow ==
    \/ lastOp.op = "mount"
    \/ lastOp.op = "toggleEdit" /\ ~isEditing

Playing == {k \in 1..Len(speaks) : speaks[k].pc = "playing"}

\* C12: while an item is loading or speaking no further speak request is
\* accepted: at most one handleSpeak invocation is in progress and at most
\* one playback is active.
C12_OneSpeakAtATime == Len(speaks) <= 1 /\ Cardinality(Playing) <= 1

\* a speak request with non-empty text ends in this step: it rejects, it
\* runs to its end without waiting, or it leaves the requests in progress of
\* the mounted display
RequestEnds ==
    \/ lastOp'.op = "rejected"
    \/ lastOp'.op = "handleSpeak" /\ obtained' # <<>> /\ Len(speaks') = Len(speaks)
    \/ story' = story /\ Mounted /\ Len(speaks') < Len(speaks)

\* C13: whichever stage of a speak request fails or succeeds (creating or
\* resuming the audio context, a fetch that gives null, a decode error, the
\* end of playback), the request ends through its cleanup step, with the
\* loading and the speaking indicator both null
C13_CleanupAlwaysRuns ==
    [][RequestEnds => /\ lastOp'.op # "rejected"
                      /\ loadingAudioIndex' = NoIndex
                      /\ speakingIndex' = NoIndex]_vars

\* C14: no error raised during a speak request escapes handleSpeak as a
\* rejected promise: a failure to create or to resume the audio context, a
\* decode error and a playback error are all caught inside handleSpeak
C14_NoRejectionEscapes == lastOp.op # "rejected"

\* the invocations whose playPCM call has not finished, as records
PlayingNow(ps) == {ps[k] : k \in {j \in 1..Len(ps) : ps[j].pc = "playing"}}

\* in this step loadAudio gives null to a speak request: the promise the
\* request joins has settled with null, or the promise it awaits settles
\* with null
ObtainsNull ==
    \/ /\ lastOp'.op \in {"handleSpeak", "resumeDone"}
       /\ obtained' # <<>>
       /\ obtained'[1].kind # "cached"
       /\ FetchOf(fetches', obtained'[1].val).result = "null"
    \/ \E f \in 1..MaxFetch, resp \in Responses :
          /\ GenerateSpeech(resp) = "null"
          /\ \E k \in 1..Len(speaks) : speaks[k].pc = "loading" /\ speaks[k].await = f
          /\ FetchResolves(f, resp)

\* C15: when loadAudio resolves to null for a speak request, playPCM is not
\* invoked for it (no playback starts), the speaking indicator is not set
\* and the loading indicator is cleared
C15_NullIsNotPlayed ==
    [][ObtainsNull => /\ PlayingNow(speaks') \subseteq PlayingNow(speaks)
                      /\ speakingIndex' = NoIndex
                      /\ loadingAudioIndex' = NoIndex]_vars

\* a speak request has just joined a promise settled with null and ended
C15_Witness ==
    /\ lastOp.op \in {"handleSpeak", "resumeDone"}
    /\ obtained # <<>>
    /\ obtained[1].kind = "joined"
    /\ FetchOf(fetches, obtained[1].val).result = "null"
    /\ loadingAudioIndex = NoIndex

\* C16: over the whole lifetime of the application, across story
\* generations, resets and speak requests, at most one AudioContext is ever
\* constructed
C16_OneAudioContext == nContext <= 1

\* C17: decoding fails with an error, and no buffer is produced or played,
\* whenever the byte length of the input is odd or 0
C17_DecodeRejectsBadLength ==
    (audioBuffer # NotDecoded /\ (Len(data) % 2 # 0 \/ Len(data) = 0)) =>
        /\ audioBuffer.error # "none"
        /\ audioBuffer.channels = <<>>
        /\ playback \in {"idle", "rejected"}

\* playPCM was called on three bytes and rejected
C17_Witness ==
    /\ Len(data) = 3
    /\ audioBuffer.error = "RangeError"
    /\ playback = "rejected"

\* sample k (from 0) of the input read as signed 16-bit little-endian values
RawSample(k) == ((data[2 * k + 1] + 256 * data[2 * k + 2] + 32768) % 65536) - 32768

\* the decoded buffer holds frames frames: sample i of channel c is
\* raw[i * ch + c] / 32768, a value of [-1, 1)
DecodedFrames(frames) ==
    /\ audioBuffer.error = "none"
    /\ audioBuffer.length = frames
    /\ Len(audioBuffer.channels) = numChannels
    /\ \A c \in 1..numChannels :
          /\ Len(audioBuffer.channels[c]) = frames
          /\ \A i \in 1..frames :
                LET v == audioBuffer.channels[c][i] IN
                /\ v.den = 32768
                /\ v.num = RawSample((i - 1) * numChannels + (c - 1))
                /\ -v.den <= v.num /\ v.num < v.den

\* decodeAudioData has been applied to n >= 1 whole samples
DecodedSamples == audioBuffer # NotDecoded /\ Len(data) % 2 = 0 /\ Len(data) >= 2

DecodeFramesWhenEnough ==
    DecodedSamples =>
        IF Len(data) \div 2 >= numChannels
        THEN DecodedFrames((Len(data) \div 2) \div numChannels)
        ELSE audioBuffer.error = "NotSupportedError" /\ audioBuffer.channels = <<>>

\* C19: playPCM on empty encoded audio, that is on a decoded buffer of
\* length zero, does not throw, and the promise it returns resolves
C19_EmptyPlayResolves ==
    (Len(data) = 0 /\ playback # "idle") => playback \in {"playing", "resolved"}

\* C20: generateSpeech never rejects: without an API key, on a service
\* error and on a response without audio data it resolves to null, and
\* without an API key it makes no network call
C20_GenerateSpeechNeverRejects ==
    /\ \A i \in 1..Len(speechLog) :
          /\ speechLog[i].value # "rejected"
          /\ speechLog[i].resp \in {"nokey", "error", "nodata", "empty"} =>
                speechLog[i].value = "null"
    /\ apiKey = "" => (networkCalls = 0 /\ speechPending = "")

\* a call without an API key has resolved to null, no network call made
C20_Witness ==
    /\ apiKey = "" /\ speechLog # <<>>
    /\ speechLog[1].value = "null"
    /\ networkCalls = 0

\* the generateSpeech calls for text started in this step
StartedFor(text) == {r \in fetches' : r.text = text /\ r.id > nFetch}

\* the cache entries and the in-flight entries of the mounted display stay
\* as they are in this step
EntriesKept ==
    \A t \in Texts :
        /\ speechPromiseMap[t] # 0 => speechPromiseMap'[t] = speechPromiseMap[t]
        /\ Truthy(audioCache[t]) => audioCache'[t] = audioCache[t]

FailedInFlight ==
    {r \in fetches : Current(r) /\ r.result = "null" /\ speechPromiseMap[r.text] = r.id}

\* C22: once the fetch for a text has resolved to null its in-flight entry
\* is kept: as long as the story is on display every later loadAudio of
\* that text joins the settled promise (null) and generateSpeech is not
\* called for the text again
C22_NoRetryAfterNull ==
    [][(Mounted /\ story' = story) =>
          \A r \in FailedInFlight :
              /\ speechPromiseMap'[r.text] = r.id
              /\ StartedFor(r.text) = {}
              /\ \A i \in 1..Len(obtained') :
                    obtained'[i].text = r.text =>
                        obtained'[i] = Entry(r.text, "joined", r.id)]_vars

\* a prefetch pass on leaving edit mode has joined a promise settled with null
C22_Witness ==
    /\ lastOp.op = "toggleEdit" /\ ~isEditing
    /\ \E i \in 1..Len(obtained) :
          /\ obtained[i].kind = "joined"
          /\ FetchOf(fetches, obtained[i].val).result = "null"

\* C23: the loading indicator and the speaking indicator never hold the
\* same item at the same time, be it a sentence index or the token 999 of
\* the flashcards
C23_LoadingSpeakingExclusive ==
    loadingAudioIndex # NoIndex => loadingAudioIndex # speakingIndex

\* every cache entry is the audio of a generateSpeech call that the display
\* of the current story made
EntriesOfCurrentCalls ==
    \A t \in Texts :
        Truthy(audioCache[t]) =>
            \E r \in CurrentFor(t) :
                r.id = audioCache[t].id /\ r.result = audioCache[t].result

\* C24: a generateSpeech call started before a story change that settles
\* after it adds no entry to the cache of the new story; every cache entry
\* belongs to a call started since the most recent story change
C24_OrphanAddsNoEntry ==
    /\ []EntriesOfCurrentCalls
    /\ [][\A f \in 1..MaxFetch, resp \in Responses :
             (FetchResolves(f, resp) /\ ~FetchOf(fetches, f).live) =>
                 audioCache' = audioCache]_vars

\* a call of the first story has just settled while the second story, which
\* shows the same text, still waits for its own call: no cache entry
C24_Witness ==
    /\ lastOp.op = "fetchResolves" /\ Mounted /\ nStory = 2
    /\ CurrentFor(lastOp.text) # {}
    /\ \A r \in CurrentFor(lastOp.text) : r.result = "pending"
    /\ ~Truthy(audioCache[lastOp.text])

\* C25: a repeated prefetch pass starts no fetch for a text it went over
\* before: entering and leaving edit mode with no text changed calls
\* generateSpeech for nothing, and a pass after an edit calls it for no text
\* that is cached or has an in-flight entry, pending, succeeded or failed
C25_PrefetchIdempotent ==
    [][lastOp'.op = "toggleEdit" =>
          /\ (\A t \in DistinctTexts(localStory) : speechPromiseMap[t] # 0) =>
                (nFetch' = nFetch /\ fetches' = fetches
                 /\ speechPromiseMap' = speechPromiseMap)
          /\ nEdit = 0 => nFetch' = nFetch
          /\ \A t \in Texts :
                (speechPromiseMap[t] # 0 \/ Truthy(audioCache[t])) => StartedFor(t) = {}]_vars

\* edit mode was entered and left with no text changed: the pass found one
\* text in the cache and joined the pending promise of another
C25_Witness ==
    /\ lastOp.op = "toggleEdit" /\ ~isEditing /\ nEdit = 0
    /\ \E i \in 1..Len(obtained) : obtained[i].kind = "cached"
    /\ \E i \in 1..Len(obtained) :
          /\ obtained[i].kind = "joined"
          /\ FetchOf(fetches, obtained[i].val).result = "pending"

\* C26: while the playback a speak request started is in progress the
\* speaking indicator shows the item of that request: no other request
\* clears or overwrites it
C26_SpeakingIndexStable ==
    \A k \in Playing : speakingIndex = speaks[k].index

\* some speak request awaits generateSpeech call f, its loading indicator set
LoadingOn(f) == \E k \in 1..Len(speaks) : speaks[k].pc = "loading" /\ speaks[k].await = f

\* no speak request is past its await of resume(): none loads, none plays
Quiet == \A k \in 1..Len(speaks) : speaks[k].pc = "resuming"

\* a step that is no call of handleSpeak
NoNewSpeak == lastOp'.op \notin {"handleSpeak", "rejected"}

\* C27: when every generateSpeech call settles and every playback ends, a
\* speak request that set the loading indicator does not stay loading; once
\* no further request is made every request past resume() terminates; and
\* whenever no speak request is in progress both indicators are null
C27_SpeakTerminates ==
    /\ \A f \in 1..MaxFetch : LoadingOn(f) ~> ~LoadingOn(f)
    /\ <>[][NoNewSpeak]_vars => <>[]Quiet
    /\ [](speaks = <<>> => (loadingAudioIndex = NoIndex /\ speakingIndex = NoIndex))

\* a speak request that waited for its audio, the loading indicator set, has
\* gone on to play it
C27_Witness ==
    /\ lastOp.op = "fetchResolves"
    /\ \E k \in 1..Len(speaks) :
          /\ speaks[k].pc = "playing"
          /\ speaks[k].text = lastOp.text
          /\ speakingIndex = speaks[k].index
    /\ loadingAudioIndex = NoIndex
====
